---------------------------- MODULE Spec2Model ----------------------------
(***************************************************************************)
(* Model of package tmx (mewspring/tmx): the layer data decoder            *)
(* (Data.decode and its three encodings), the grid accessors of Layer and  *)
(* the flip-flag methods of GID.                                           *)
(*                                                                         *)
(* Representation of machine integers.  TLC's integers are 32-bit signed,  *)
(* so a uint32 (type GID) is a pair <<hi, lo>> of 16-bit halves, value     *)
(* hi * 2^16 + lo, and the int that strconv.Atoi returns (64 bits on the   *)
(* amd64/arm64 builds this model describes) is four 16-bit limbs           *)
(* <<l3, l2, l1, l0>>.  Text is a sequence of one-character strings.       *)
(***************************************************************************)
EXTENDS Integers, Sequences, FiniteSets, TLC

VARIABLES
    data,    \* the layer's *Data: Encoding, Compression, RawData, Tiles, gids
    err,     \* the error value returned by the last decode call
    ran,     \* the steps of Data.decode the last decode call executed
    dims,    \* <<cols, rows>> of the decode call that allocated data.gids
    ret,     \* the last accessor call and its outcome (value or panic)
    input,   \* how the payload in data was produced (entries, form)
    gid,     \* the GID handed to the flag methods
    flags,   \* what the flag methods returned for gid
    tmap,    \* the *Map m NewFile fills: Width, Height, each layer's Data
    pc,      \* where NewFile, or each decode call running side by side, is
    returned \* what NewFile, or each of those decode calls, returned

vars == <<data, err, ran, dims, ret, input, gid, flags, tmap, pc, returned>>

fileVars == <<tmap, pc, returned>>

layerVars == <<data, err, ran, dims, ret, input>>

gidVars == <<gid, flags>>

----------------------------------------------------------------------------
(* Bounds of the model.                                                     *)

\* Largest cols / rows handed to decode, and largest accessor coordinate.
MaxDim == 2

\* Largest number of entries in a generated payload.
MaxEntries == 5

----------------------------------------------------------------------------
(* Machine words.                                                           *)

Half == 2 ^ 16

RECURSIVE BitAnd(_, _)
\* a & b on naturals
BitAnd(a, b) ==
    IF a = 0 \/ b = 0 THEN 0
    ELSE (a % 2) * (b % 2) + 2 * BitAnd(a \div 2, b \div 2)

\* x & y on uint32
And32(x, y) == <<BitAnd(x[1], y[1]), BitAnd(x[2], y[2])>>

\* x | y on uint32
Or32(x, y) ==
    <<x[1] + y[1] - BitAnd(x[1], y[1]), x[2] + y[2] - BitAnd(x[2], y[2])>>

\* x &^ y on uint32
AndNot32(x, y) == <<x[1] - BitAnd(x[1], y[1]), x[2] - BitAnd(x[2], y[2])>>

Zero32 == <<0, 0>>

\* int(x) for a uint32 x; the int is 64 bits wide, so the value is kept.
IntOf32(x) == x[1] * Half + x[2]

----------------------------------------------------------------------------
(* spec.go: the flip flags, and the methods of GID.                         *)

FlagDiagonalFlip == <<8192, 0>>      \* 0x20000000

FlagVerticalFlip == <<16384, 0>>     \* 0x40000000

FlagHorizontalFlip == <<32768, 0>>   \* 0x80000000

\* A mask that misses the diagonal flag.
FlagFlipNoDiagonal == Or32(FlagVerticalFlip, FlagHorizontalFlip)

FlagFlip == Or32(Or32(FlagDiagonalFlip, FlagVerticalFlip), FlagHorizontalFlip)

GlobalTileID(g) == IntOf32(AndNot32(g, FlagFlip))

IsDiagonalFlip(g) == And32(g, FlagDiagonalFlip) # Zero32

IsVerticalFlip(g) == And32(g, FlagVerticalFlip) # Zero32

IsHorizontalFlip(g) == And32(g, FlagHorizontalFlip) # Zero32

IsFlip(g) == And32(g, FlagFlip) # Zero32

----------------------------------------------------------------------------
(* Error values.  kind "nil" is the nil error; tag carries the rejected     *)
(* encoding / compression name or the reporting function, got / want the    *)
(* two counts of a "wrong number of GIDs" error, tok the text strconv.Atoi  *)
(* was given.                                                               *)

Err(kind, tag, got, want, tok) ==
    [kind |-> kind, tag |-> tag, got |-> got, want |-> want, tok |-> tok]

nil == Err("nil", "", 0, 0, <<>>)

\* fmt.Errorf("...: wrong number of GIDs. Got %d, wanted %d.", got, want)
WrongNumber(fn, got, want) == Err("wrong number of GIDs", fn, got, want, <<>>)

\* an error of a library reader or parser
LibErr(kind) == Err(kind, "", 0, 0, <<>>)

----------------------------------------------------------------------------
(* Text: strings.Map(clean, s), strings.Split, strings.TrimSpace,           *)
(* strconv.Atoi.                                                            *)

Digits == <<"0", "1", "2", "3", "4", "5", "6", "7", "8", "9">>

IsDigit(r) == \E i \in 1..10 : Digits[i] = r

DigitVal(r) == (CHOOSE i \in 1..10 : Digits[i] = r) - 1

\* clean(r) # -1: the rune is kept
clean(r) == IsDigit(r) \/ r = ","

\* strings.Map(clean, s): the runes clean maps to -1 are dropped
MapClean(s) == SelectSeq(s, clean)

RECURSIVE Split(_, _)
\* strings.Split(s, sep) for a one-character sep
Split(s, sep) ==
    IF \E i \in 1..Len(s) : s[i] = sep
    THEN LET i == CHOOSE j \in 1..Len(s) :
                      s[j] = sep /\ \A k \in 1..(j - 1) : s[k] # sep
         IN  <<SubSeq(s, 1, i - 1)>> \o Split(SubSeq(s, i + 1, Len(s)), sep)
    ELSE <<s>>

IsSpace(r) == r \in {" ", "\t", "\n", "\r"}

RECURSIVE TrimLeft(_)
TrimLeft(s) ==
    IF Len(s) > 0 /\ IsSpace(s[1]) THEN TrimLeft(Tail(s)) ELSE s

RECURSIVE TrimRight(_)
TrimRight(s) ==
    IF Len(s) > 0 /\ IsSpace(s[Len(s)])
    THEN TrimRight(SubSeq(s, 1, Len(s) - 1))
    ELSE s

\* strings.TrimSpace(s)
TrimSpace(s) == TrimRight(TrimLeft(s))

ZeroInt == <<0, 0, 0, 0>>

\* n * 10 + d on the 64-bit int n; the top limb is left unreduced so that
\* the caller sees the overflow.
MulAdd10(n, d) ==
    LET t0 == n[4] * 10 + d
        t1 == n[3] * 10 + (t0 \div Half)
        t2 == n[2] * 10 + (t1 \div Half)
        t3 == n[1] * 10 + (t2 \div Half)
    IN  <<t3, t2 % Half, t1 % Half, t0 % Half>>

\* the value does not fit a signed 64-bit int
Overflows(n) == n[1] >= 2 ^ 15

RECURSIVE ParseDigits(_, _, _)
ParseDigits(s, i, n) ==
    IF i > Len(s) THEN [n |-> n, err |-> "nil"]
    ELSE IF ~IsDigit(s[i]) THEN [n |-> ZeroInt, err |-> "strconv.ErrSyntax"]
    ELSE LET m == MulAdd10(n, DigitVal(s[i]))
         IN  IF Overflows(m)
             THEN [n |-> ZeroInt, err |-> "strconv.ErrRange"]
             ELSE ParseDigits(s, i + 1, m)

\* An Atoi that reads the empty string as 0.
AtoiEmptyIsZero(s) == ParseDigits(s, 1, ZeroInt)

\* strconv.Atoi(s) on the texts decodeCsv hands it: after strings.Map(clean, .)
\* and Split on "," a token holds digits only, so the sign Atoi also accepts
\* never occurs.
Atoi(s) ==
    IF Len(s) = 0 THEN [n |-> ZeroInt, err |-> "strconv.ErrSyntax"]
    ELSE ParseDigits(s, 1, ZeroInt)

\* GID(gid) for an int gid: conversion to uint32 keeps the low 32 bits
GIDOfInt(n) == <<n[3], n[4]>>

----------------------------------------------------------------------------
(* Bytes: binary.LittleEndian.Uint32.                                       *)

\* A big-endian reading of the four bytes.
BigEndianUint32(b) == <<b[1] * 256 + b[2], b[3] * 256 + b[4]>>

\* binary.LittleEndian.Uint32(b): b[0] | b[1]<<8 | b[2]<<16 | b[3]<<24
LittleEndianUint32(b) == <<b[4] * 256 + b[3], b[2] * 256 + b[1]>>

----------------------------------------------------------------------------
(* Readers.  An io.Reader over an in-memory payload is the pair of the      *)
(* bytes it yields and the error it ends with ("nil": a clean io.EOF); this *)
(* is what ioutil.ReadAll returns for it.                                   *)

Reader(buf, e) == [buf |-> buf, err |-> e]

\* base64.StdEncoding's alphabet
encodeStd ==
    << "A", "B", "C", "D", "E", "F", "G", "H", "I", "J", "K", "L", "M",
       "N", "O", "P", "Q", "R", "S", "T", "U", "V", "W", "X", "Y", "Z",
       "a", "b", "c", "d", "e", "f", "g", "h", "i", "j", "k", "l", "m",
       "n", "o", "p", "q", "r", "s", "t", "u", "v", "w", "x", "y", "z",
       "0", "1", "2", "3", "4", "5", "6", "7", "8", "9", "+", "/" >>

IsB64(r) == \E i \in 1..64 : encodeStd[i] = r

B64Val(r) == (CHOOSE i \in 1..64 : encodeStd[i] = r) - 1

NotNewline(r) == r \notin {"\n", "\r"}

\* the error text after a padded quantum ends the stream with
AfterPadding(rest) ==
    IF Len(rest) = 0 THEN nil
    ELSE IF Len(rest) < 4 THEN LibErr("io.ErrUnexpectedEOF")
    ELSE LibErr("base64.CorruptInputError")

RECURSIVE B64Quanta(_)
\* The quanta of four characters, each giving up to three bytes; the bytes of
\* the quanta before a corrupt one are delivered, then the error.  Text after
\* a padded quantum is an error, raised after that quantum's bytes.
B64Quanta(s) ==
    IF Len(s) = 0 THEN Reader(<<>>, nil)
    ELSE IF Len(s) < 4 THEN Reader(<<>>, LibErr("io.ErrUnexpectedEOF"))
    ELSE LET a == s[1]
             b == s[2]
             c == s[3]
             d == s[4]
             rest == SubSeq(s, 5, Len(s))
         IN  IF ~(IsB64(a) /\ IsB64(b))
             THEN Reader(<<>>, LibErr("base64.CorruptInputError"))
             ELSE LET b0 == B64Val(a) * 4 + (B64Val(b) \div 16)
                  IN  IF c = "=" /\ d = "="
                      THEN Reader(<<b0>>, AfterPadding(rest))
                      ELSE IF ~IsB64(c)
                      THEN Reader(<<>>, LibErr("base64.CorruptInputError"))
                      ELSE LET b1 == (B64Val(b) % 16) * 16 + (B64Val(c) \div 4)
                           IN  IF d = "="
                               THEN Reader(<<b0, b1>>, AfterPadding(rest))
                               ELSE IF ~IsB64(d)
                               THEN Reader(<<>>,
                                        LibErr("base64.CorruptInputError"))
                               ELSE LET b2 == (B64Val(c) % 4) * 64 + B64Val(d)
                                        r  == B64Quanta(rest)
                                    IN  Reader(<<b0, b1, b2>> \o r.buf, r.err)

\* base64.NewDecoder(base64.StdEncoding, strings.NewReader(s)): line breaks
\* are skipped, the rest is decoded quantum by quantum.
NewBase64Decoder(s) == B64Quanta(SelectSeq(s, NotNewline))

(* compress/gzip and compress/zlib are libraries outside the repository.    *)
(* Their streams are modelled by their framing: a two-byte magic, one       *)
(* stored block (a length byte n and n data bytes) and a trailing checksum  *)
(* of the data (CRC-32 / Adler-32 in the library, the byte sum here).       *)

Magic(kind) == IF kind = "gzip" THEN <<31, 139>> ELSE <<120, 156>>

RECURSIVE Sum(_)
Sum(b) == IF Len(b) = 0 THEN 0 ELSE (b[1] + Sum(Tail(b))) % 256

\* what a read past the end of the underlying reader r reports
EndOf(r) == IF r.err = nil THEN LibErr("io.ErrUnexpectedEOF") ELSE r.err

\* the error of gzip.NewReader(r) / zlib.NewReader(r): it reads the header
NewReaderErr(kind, r) ==
    IF Len(r.buf) < 2 THEN EndOf(r)
    ELSE IF SubSeq(r.buf, 1, 2) # Magic(kind) THEN LibErr(kind \o ".ErrHeader")
    ELSE nil

\* the reader z that gzip.NewReader(r) / zlib.NewReader(r) returned: the data
\* it inflates, and the error it ends with.  A zlib reader stops at the
\* checksum; a gzip reader goes on to look for the header of a next member
\* and so meets what follows the checksum in r.
Inflate(kind, r) ==
    LET body == SubSeq(r.buf, 3, Len(r.buf))
    IN  IF Len(body) = 0 THEN Reader(<<>>, EndOf(r))
        ELSE LET n     == body[1]
                 avail == SubSeq(body, 2, Len(body))
             IN  IF Len(avail) < n THEN Reader(avail, EndOf(r))
                 ELSE LET out == SubSeq(avail, 1, n)
                      IN  IF Len(avail) = n THEN Reader(out, EndOf(r))
                          ELSE IF avail[n + 1] # Sum(out)
                          THEN Reader(out, LibErr(kind \o ".ErrChecksum"))
                          ELSE IF kind = "zlib" THEN Reader(out, nil)
                          ELSE IF Len(avail) > n + 1
                          THEN Reader(out, LibErr("gzip.ErrHeader"))
                          ELSE Reader(out, r.err)

----------------------------------------------------------------------------
(* spec.go: type Data.  gids is the nil slice until decode allocates it;    *)
(* tbl is indexed [col + 1][row + 1].                                       *)

NilGids == [nil |-> TRUE, tbl |-> <<>>]

\* make([][]GID, cols), each column make([]GID, rows): zero-filled
MakeGids(cols, rows) ==
    [nil |-> FALSE, tbl |-> [c \in 1..cols |-> [r \in 1..rows |-> Zero32]]]

Data(enc, comp, raw, tiles) ==
    [Encoding |-> enc, Compression |-> comp, RawData |-> raw,
     Tiles |-> tiles, gids |-> NilGids]

\* data.gids[col][row] = g
SetGid(gids, col, row, g) ==
    [gids EXCEPT !.tbl[col + 1][row + 1] = g]

\* what a decoder hands back: the grid as it left it, and its error
Decoded(gids, e) == [gids |-> gids, err |-> e]

----------------------------------------------------------------------------
(* tmx.go: the three decoders.  Each loop is the source's                   *)
(*     i := 0; for row := 0; row < rows; row++ {                            *)
(*                 for col := 0; col < cols; col++ { ...; i++ } }           *)

RECURSIVE xmlLoopColumnFirst(_, _, _, _, _, _, _)
\* The loops nested the other way round: columns outside, rows inside.
xmlLoopColumnFirst(gids, tiles, cols, rows, row, col, i) ==
    IF col >= cols THEN gids
    ELSE IF row >= rows
         THEN xmlLoopColumnFirst(gids, tiles, cols, rows, 0, col + 1, i)
         ELSE xmlLoopColumnFirst(SetGid(gids, col, row, tiles[i + 1].GID),
                                 tiles, cols, rows, row + 1, col, i + 1)

RECURSIVE xmlLoop(_, _, _, _, _, _, _)
xmlLoop(gids, tiles, cols, rows, row, col, i) ==
    IF row >= rows THEN gids
    ELSE IF col >= cols
         THEN xmlLoop(gids, tiles, cols, rows, row + 1, 0, i)
         ELSE xmlLoop(SetGid(gids, col, row, tiles[i + 1].GID),
                      tiles, cols, rows, row, col + 1, i + 1)

\* Data.decodeXml
decodeXml(d, cols, rows) ==
    IF Len(d.Tiles) # cols * rows
    THEN Decoded(d.gids, WrongNumber("decodeXml", Len(d.Tiles), cols * rows))
    ELSE Decoded(xmlLoop(d.gids, d.Tiles, cols, rows, 0, 0, 0), nil)

RECURSIVE csvLoop(_, _, _, _, _, _, _)
\* the loop returns at the first token strconv.Atoi rejects, leaving the
\* cells before it filled
csvLoop(gids, rawGIDs, cols, rows, row, col, i) ==
    IF row >= rows THEN Decoded(gids, nil)
    ELSE IF col >= cols
         THEN csvLoop(gids, rawGIDs, cols, rows, row + 1, 0, i)
         ELSE LET a == Atoi(rawGIDs[i + 1])
              IN  IF a.err # "nil"
                  THEN Decoded(gids, Err(a.err, "Atoi", 0, 0, rawGIDs[i + 1]))
                  ELSE csvLoop(SetGid(gids, col, row, GIDOfInt(a.n)),
                               rawGIDs, cols, rows, row, col + 1, i + 1)

\* Data.decodeCsv
decodeCsv(d, cols, rows) ==
    LET cleanData == MapClean(d.RawData)
        rawGIDs   == Split(cleanData, ",")
    IN  IF Len(rawGIDs) # cols * rows
        THEN Decoded(d.gids,
                     WrongNumber("decodeCsv", Len(rawGIDs), cols * rows))
        ELSE csvLoop(d.gids, rawGIDs, cols, rows, 0, 0, 0)

RECURSIVE base64Loop(_, _, _, _, _, _, _)
base64Loop(gids, buf, cols, rows, row, col, i) ==
    IF row >= rows THEN gids
    ELSE IF col >= cols
         THEN base64Loop(gids, buf, cols, rows, row + 1, 0, i)
         ELSE LET g == LittleEndianUint32(SubSeq(buf, i * 4 + 1, i * 4 + 4))
              IN  base64Loop(SetGid(gids, col, row, g),
                             buf, cols, rows, row, col + 1, i + 1)

\* the tail of Data.decodeBase64, from ioutil.ReadAll(r) on: the error
\* ReadAll returns is assigned and never read
base64Fill(d, r, cols, rows) ==
    LET buf == r.buf
    IN  IF Len(buf) \div 4 # cols * rows
        THEN Decoded(d.gids,
                     WrongNumber("decodeBase64", Len(buf) \div 4, cols * rows))
        ELSE Decoded(base64Loop(d.gids, buf, cols, rows, 0, 0, 0), nil)

\* A return that runs the calls deferred so far only when no error is
\* returned (a Close at the end of the function instead of a deferred one).
ReturnCloseOnSuccess(x, steps, defers) ==
    [gids |-> x.gids, err |-> x.err,
     steps |-> steps \cup (IF x.err = nil THEN defers ELSE {})]

\* a return from decodeBase64 with result x: the calls registered with
\* defer so far run, whatever the exit path; steps are the stream calls made
\* before the return
Return(x, steps, defers) ==
    [gids |-> x.gids, err |-> x.err, steps |-> steps \cup defers]

\* Data.decodeBase64.  "z.open": gzip.NewReader / zlib.NewReader returned a
\* stream z; "z.Close": z.Close() ran.
decodeBase64(d, cols, rows) ==
    LET s == TrimSpace(d.RawData)
        r == NewBase64Decoder(s)
    IN  CASE d.Compression \in {"gzip", "zlib"} ->
               LET e == NewReaderErr(d.Compression, r)
               IN  IF e # nil
                   THEN Return(Decoded(d.gids, e), {"NewReader failed"}, {})
                   ELSE Return(base64Fill(d, Inflate(d.Compression, r),
                                          cols, rows),
                               {"z.open"}, {"z.Close"})
          [] d.Compression = "" ->
               Return(base64Fill(d, r, cols, rows), {}, {})
          [] OTHER ->
               Return(Decoded(d.gids, Err("compression not yet implemented",
                                          d.Compression, 0, 0, <<>>)),
                      {}, {})

\* the result of a decode call: the layer data after it, the error returned,
\* and the steps that ran
Result(d, e, steps) == [data |-> d, err |-> e, ran |-> steps]

\* Data.decode, "// alloc": data.gids = make([][]GID, cols) and its columns
alloc(d, cols, rows) == [d EXCEPT !.gids = MakeGids(cols, rows)]

\* Data.decode, "// decode": the switch on the encoding, on the data a with
\* its grid allocated
switchEncoding(a, cols, rows) ==
    CASE a.Encoding = "base64" ->
           LET x == decodeBase64(a, cols, rows)
           IN  Result([a EXCEPT !.gids = x.gids], x.err,
                      {"alloc", "decodeBase64"} \cup x.steps)
      [] a.Encoding = "csv" ->
           LET x == decodeCsv(a, cols, rows)
           IN  Result([a EXCEPT !.gids = x.gids], x.err,
                      {"alloc", "decodeCsv"})
      [] a.Encoding = "" ->
           LET x == decodeXml(a, cols, rows)
           IN  Result([a EXCEPT !.gids = x.gids], x.err,
                      {"alloc", "decodeXml"})
      [] OTHER ->
           Result(a, Err("encoding not yet implemented",
                         a.Encoding, 0, 0, <<>>), {"alloc"})

\* Data.decode from "// alloc" on: the allocation and the switch on the
\* encoding
allocAndDecode(d, cols, rows) ==
    switchEncoding(alloc(d, cols, rows), cols, rows)

\* A decode without the "already decoded" guard.
decodeAlways(d, cols, rows) == allocAndDecode(d, cols, rows)

\* Data.decode
decode(d, cols, rows) ==
    IF ~d.gids.nil
    THEN Result(d, nil, {})
    ELSE allocAndDecode(d, cols, rows)

----------------------------------------------------------------------------
(* tmx.go: the accessors of Layer.  Indexing a slice out of range (the nil  *)
(* slice has length 0) is a run-time panic.                                 *)

Value(v) == [kind |-> "value", v |-> v]

Panic == [kind |-> "panic", v |-> Zero32]

NoRet == [kind |-> "none", v |-> Zero32]

InRange(gids, col, row) ==
    /\ 0 <= col /\ col < Len(gids.tbl)
    /\ 0 <= row /\ row < Len(gids.tbl[col + 1])

\* Layer.GetRawGID
GetRawGID(d, col, row) ==
    IF InRange(d.gids, col, row)
    THEN Value(d.gids.tbl[col + 1][row + 1])
    ELSE Panic

\* Layer.GetGID
GetGID(d, col, row) ==
    IF InRange(d.gids, col, row)
    THEN Value(GlobalTileID(d.gids.tbl[col + 1][row + 1]))
    ELSE Panic

----------------------------------------------------------------------------
(* Payloads.  The repository only reads maps; the writers below produce the *)
(* payloads a map editor stores, row-major, from a list of entries, and the *)
(* defective variants of them.                                              *)

\* Identifiers used as payload entries: pairwise distinct, with and without
\* flip flags.
Samples ==
    << <<32768, 5>>, <<24576, 9>>, <<0, 1>>, <<65535, 65535>>, <<0, 0>>,
       <<8192, 2>>, <<16384, 300>> >>

\* the n entries of a payload: the first n samples, in turn
Entries(n) == [k \in 1..n |-> Samples[((k - 1) % Len(Samples)) + 1]]

\* g \div 10 and g % 10 on uint32
DivMod10(g) ==
    LET t == (g[1] % 10) * Half + g[2]
    IN  [q |-> <<g[1] \div 10, t \div 10>>, r |-> t % 10]

RECURSIVE FormatDigits(_)
FormatDigits(g) ==
    IF g = Zero32 THEN <<>>
    ELSE FormatDigits(DivMod10(g).q) \o <<Digits[DivMod10(g).r + 1]>>

\* the decimal text of g
FormatUint32(g) == IF g = Zero32 THEN <<"0">> ELSE FormatDigits(g)

RECURSIVE Join(_, _)
\* the tokens separated by sep
Join(toks, sep) ==
    IF Len(toks) = 0 THEN <<>>
    ELSE IF Len(toks) = 1 THEN toks[1]
    ELSE toks[1] \o sep \o Join(Tail(toks), sep)

Tokens(entries) == [k \in 1..Len(entries) |-> FormatUint32(entries[k])]

\* 2^32 + 5 and a number beyond 64 bits, as decimal text
BigToken == <<"4", "2", "9", "4", "9", "6", "7", "3", "0", "1">>

HugeToken == [k \in 1..20 |-> "9"]

\* csv text of the entries in the given form
CsvText(entries, form) ==
    LET toks == Tokens(entries)
    IN  CASE form = "ok" -> Join(toks, <<",">>)
          [] form = "lines" ->
               <<"\n">> \o Join(toks, <<",", "\n">>) \o <<"\n">>
          [] form = "empty first" -> Join(<<<<>>>> \o toks, <<",">>)
          [] form = "empty last" -> Join(toks \o <<<<>>>>, <<",">>)
          [] form = "letter" -> Join(<<<<"x">>>> \o Tail(toks), <<",">>)
          [] form = "huge" -> Join(<<HugeToken>> \o Tail(toks), <<",">>)
          [] form = "minus" ->
               Join(<<<<"-">> \o toks[1]>> \o Tail(toks), <<",">>)
          [] form = "big" -> Join(<<BigToken>> \o Tail(toks), <<",">>)

\* the four bytes of g, least significant first
PutUint32(g) == <<g[2] % 256, g[2] \div 256, g[1] % 256, g[1] \div 256>>

RECURSIVE PutAll(_)
PutAll(entries) ==
    IF Len(entries) = 0 THEN <<>>
    ELSE PutUint32(entries[1]) \o PutAll(Tail(entries))

RECURSIVE EncodeB64(_)
\* base64.StdEncoding text of the bytes, with padding
EncodeB64(b) ==
    IF Len(b) = 0 THEN <<>>
    ELSE LET c1 == encodeStd[(b[1] \div 4) + 1]
         IN  IF Len(b) = 1
             THEN <<c1, encodeStd[(b[1] % 4) * 16 + 1], "=", "=">>
             ELSE LET c2 == encodeStd[(b[1] % 4) * 16 + (b[2] \div 16) + 1]
                  IN  IF Len(b) = 2
                      THEN <<c1, c2, encodeStd[(b[2] % 16) * 4 + 1], "=">>
                      ELSE <<c1, c2,
                             encodeStd[(b[2] % 16) * 4 + (b[3] \div 64) + 1],
                             encodeStd[(b[3] % 64) + 1]>>
                           \o EncodeB64(SubSeq(b, 4, Len(b)))

\* the compressed stream of the bytes
Deflate(kind, b) == Magic(kind) \o <<Len(b)>> \o b \o <<Sum(b)>>

B64Forms(comp) ==
    IF comp \in {"gzip", "zlib"}
    THEN {"ok", "extra byte", "garbage", "checksum", "truncated", "header"}
    ELSE IF comp = "" THEN {"ok", "extra byte", "garbage"}
    ELSE {"ok"}

\* the byte stream that is base64-wrapped
Stream(entries, comp, form) ==
    LET b == PutAll(entries) \o (IF form = "extra byte" THEN <<7>> ELSE <<>>)
        z == Deflate(comp, b)
    IN  IF comp \notin {"gzip", "zlib"} THEN b
        ELSE CASE form = "checksum" ->
                    SubSeq(z, 1, Len(z) - 1) \o <<(Sum(b) + 1) % 256>>
               [] form = "truncated" -> SubSeq(z, 1, Len(z) - 3)
               [] form = "header" -> <<0, 0>> \o SubSeq(z, 3, Len(z))
               [] OTHER -> z

\* base64 text of the entries as it stands between <data> and </data>
Base64Text(entries, comp, form) ==
    <<"\n", " ", " ">>
    \o EncodeB64(Stream(entries, comp, form))
    \o (IF form = "garbage" THEN <<"!">> ELSE <<>>)
    \o <<"\n", " ">>

\* the <tile gid="..."/> elements of the XML encoding
TileList(entries) == [k \in 1..Len(entries) |-> [GID |-> entries[k]]]

Encodings == {"", "csv", "base64", "rle"}

Compressions == {"", "gzip", "zlib", "lzma"}

\* the layer data of a payload, and the record of how it was made; form
\* "tagged" is a sound csv or XML payload whose <data> element also carries
\* a compression attribute
Payload(enc, comp, form, n) ==
    LET e == Entries(n)
    IN  [data |->
             CASE enc = "" -> Data("", comp, <<>>, TileList(e))
               [] enc = "csv" ->
                    Data("csv", comp,
                         CsvText(e, IF form = "tagged" THEN "ok" ELSE form),
                         <<>>)
               [] enc = "base64" ->
                    Data("base64", comp, Base64Text(e, comp, form), <<>>)
               [] OTHER -> Data(enc, "", Join(Tokens(e), <<",">>), <<>>),
         input |-> [enc |-> enc, comp |-> comp, form |-> form,
                    entries |-> e]]

\* the payloads the model starts from
Payloads ==
    { Payload("", "", "ok", n) : n \in 0..MaxEntries }
    \cup
    { Payload("rle", "", "ok", n) : n \in 0..MaxEntries }
    \cup
    { Payload("csv", "", f, n) :
          n \in 0..MaxEntries,
          f \in {"ok", "lines", "empty first", "empty last"} }
    \cup
    { Payload("csv", "", f, n) :
          n \in 1..MaxEntries, f \in {"letter", "huge", "minus", "big"} }
    \cup
    { Payload(enc, "gzip", "tagged", n) :
          enc \in {"", "csv"}, n \in 0..MaxEntries }
    \cup
    UNION { { Payload("base64", c, f, n) :
                  n \in 0..MaxEntries, f \in B64Forms(c) }
            : c \in Compressions }

----------------------------------------------------------------------------
(* The layer as a state machine: decode calls and accessor calls in any     *)
(* order on one layer.                                                      *)

Dims == 0..MaxDim

Coords == -1..MaxDim

NoFlags == [set |-> FALSE, id |-> 0, h |-> FALSE, v |-> FALSE, d |-> FALSE,
            any |-> FALSE]

NoCall == [op |-> "none", col |-> 0, row |-> 0, out |-> NoRet]

\* the nil *Map
NilMap == [nil |-> TRUE, Width |-> 0, Height |-> 0, Layers |-> <<>>]

\* NewFile is not running
NoPc == [at |-> "idle", i |-> 0]

\* NewFile has not returned
NoOut == [set |-> FALSE, m |-> NilMap, err |-> nil]

Init ==
    /\ \E x \in Payloads : data = x.data /\ input = x.input
    /\ err = nil
    /\ ran = {}
    /\ dims = <<0, 0>>
    /\ ret = NoCall
    /\ gid = Zero32
    /\ flags = NoFlags
    /\ tmap = NilMap
    /\ pc = NoPc
    /\ returned = NoOut

\* err = data.decode(cols, rows)
Decode(cols, rows) ==
    LET res == decode(data, cols, rows)
    IN  /\ data' = res.data
        /\ err' = res.err
        /\ ran' = res.ran
        /\ dims' = IF res.ran # {} THEN <<cols, rows>> ELSE dims
        /\ ret' = NoCall
        /\ UNCHANGED <<input, gid, flags, tmap, pc, returned>>

\* l.GetRawGID(col, row)
CallGetRawGID(col, row) ==
    /\ ret' = [op |-> "GetRawGID", col |-> col, row |-> row,
               out |-> GetRawGID(data, col, row)]
    /\ UNCHANGED <<data, err, ran, dims, input, gid, flags, tmap, pc, returned>>

\* l.GetGID(col, row)
CallGetGID(col, row) ==
    /\ ret' = [op |-> "GetGID", col |-> col, row |-> row,
               out |-> GetGID(data, col, row)]
    /\ UNCHANGED <<data, err, ran, dims, input, gid, flags, tmap, pc, returned>>

DecodeStep == \E cols \in Dims, rows \in Dims : Decode(cols, rows)

Next ==
    \/ DecodeStep
    \/ \E col \in Coords, row \in Coords : CallGetRawGID(col, row)
    \/ \E col \in Coords, row \in Coords : CallGetGID(col, row)

Spec == Init /\ [][Next]_vars

----------------------------------------------------------------------------
(* The flag methods of GID as a state machine of their own: a GID, then     *)
(* the five methods applied to it.                                          *)

\* index parts (bits 16..28 and 0..15) the GIDs are built from
LowSamples ==
    { <<0, 0>>, <<0, 1>>, <<0, 5>>, <<0, 65535>>, <<1, 0>>, <<4096, 0>>,
      <<8191, 65535>> }

Bit == {0, 1}

\* every combination of the three flag bits over the index parts
GIDInputs ==
    { <<h * 32768 + v * 16384 + d * 8192 + low[1], low[2]>> :
          h \in Bit, v \in Bit, d \in Bit, low \in LowSamples }

InitGID ==
    /\ data = Data("", "", <<>>, <<>>)
    /\ input = [enc |-> "", comp |-> "", form |-> "ok", entries |-> <<>>]
    /\ err = nil
    /\ ran = {}
    /\ dims = <<0, 0>>
    /\ ret = NoCall
    /\ gid \in GIDInputs
    /\ flags = NoFlags
    /\ tmap = NilMap
    /\ pc = NoPc
    /\ returned = NoOut

ApplyFlags ==
    /\ flags' = [set |-> TRUE,
                 id  |-> GlobalTileID(gid),
                 h   |-> IsHorizontalFlip(gid),
                 v   |-> IsVerticalFlip(gid),
                 d   |-> IsDiagonalFlip(gid),
                 any |-> IsFlip(gid)]
    /\ UNCHANGED <<data, err, ran, dims, ret, input, gid, tmap, pc, returned>>

NextGID == ApplyFlags

SpecGID == InitGID /\ [][NextGID]_vars

----------------------------------------------------------------------------
(* tmx.go: NewFile.  The document behind the reader r is given by what      *)
(* d.Decode(m) makes of it: an error, or Width, Height and one Data per     *)
(* <layer> element, in document order.                                      *)

MaxLayers == 3

\* the *Map m with its fields set (of a Layer only Data plays a part)
Map(w, h, layers) ==
    [nil |-> FALSE, Width |-> w, Height |-> h, Layers |-> layers]

\* new(Map)
NewMap == Map(0, 0, <<>>)

\* the <data> elements the documents are made of: XML tiles, csv, zlib in
\* base64, a csv token that does not parse, an encoding not implemented
LayerData ==
    { Payload("", "", "ok", 1).data,
      Payload("", "", "ok", 2).data,
      Payload("csv", "", "lines", 1).data,
      Payload("base64", "zlib", "ok", 2).data,
      Payload("csv", "", "letter", 1).data,
      Payload("rle", "", "ok", 1).data }

Documents ==
    { [xml |-> "error", Width |-> 0, Height |-> 0, Layers |-> <<>>] }
    \cup
    { [xml |-> "ok", Width |-> w, Height |-> h, Layers |-> ls] :
          w \in Dims, h \in Dims,
          ls \in UNION { [1..n -> LayerData] : n \in 0..MaxLayers } }

\* err = d.Decode(m)
xmlDecode(doc) ==
    IF doc.xml = "error"
    THEN [m |-> NewMap, err |-> LibErr("xml.SyntaxError")]
    ELSE [m |-> Map(doc.Width, doc.Height, doc.Layers), err |-> nil]

\* A loop body that goes on to the next layer whatever decode returned.
rangeBodyIgnoreErr(mp, i) ==
    LET res == decode(mp.Layers[i], mp.Width, mp.Height)
    IN  [m |-> [mp EXCEPT !.Layers[i] = res.data], err |-> nil]

\* the body of "for _, l := range m.Layers" for the i-th layer:
\* err = l.Data.decode(m.Width, m.Height); l.Data is the pointer held by
\* m.Layers[i], so the decode acts on the map's own Data
rangeBody(mp, i) ==
    LET res == decode(mp.Layers[i], mp.Width, mp.Height)
    IN  [m |-> [mp EXCEPT !.Layers[i] = res.data], err |-> res.err]

\* what NewFile returned
Returned(mp, e) == [set |-> TRUE, m |-> mp, err |-> e]

PcAt(at, i) == [at |-> at, i |-> i]

InitNewFile ==
    /\ input \in Documents
    /\ tmap = NilMap
    /\ pc = PcAt("Decode", 0)
    /\ returned = NoOut
    /\ data = Data("", "", <<>>, <<>>)
    /\ err = nil
    /\ ran = {}
    /\ dims = <<0, 0>>
    /\ ret = NoCall
    /\ gid = Zero32
    /\ flags = NoFlags

\* m = new(Map); err = d.Decode(m); if err != nil { return nil, err }
NewFileDecode ==
    /\ pc.at = "Decode"
    /\ LET x == xmlDecode(input)
       IN  /\ tmap' = x.m
           /\ IF x.err # nil
              THEN /\ returned' = Returned(NilMap, x.err)
                   /\ pc' = PcAt("returned", 0)
              ELSE /\ returned' = returned
                   /\ pc' = PcAt("range", 1)
    /\ UNCHANGED <<data, err, ran, dims, ret, input, gid, flags>>

\* one iteration of the loop over m.Layers
NewFileRange ==
    /\ pc.at = "range"
    /\ pc.i <= Len(tmap.Layers)
    /\ LET x == rangeBody(tmap, pc.i)
       IN  /\ tmap' = x.m
           /\ IF x.err # nil
              THEN /\ returned' = Returned(NilMap, x.err)
                   /\ pc' = PcAt("returned", pc.i)
              ELSE /\ returned' = returned
                   /\ pc' = PcAt("range", pc.i + 1)
    /\ UNCHANGED <<data, err, ran, dims, ret, input, gid, flags>>

\* return m, nil
NewFileReturn ==
    /\ pc.at = "range"
    /\ pc.i > Len(tmap.Layers)
    /\ returned' = Returned(tmap, nil)
    /\ pc' = PcAt("returned", pc.i)
    /\ UNCHANGED <<data, err, ran, dims, ret, input, gid, flags, tmap>>

NextNewFile ==
    \/ NewFileDecode
    \/ NewFileRange
    \/ NewFileReturn

SpecNewFile == InitNewFile /\ [][NextNewFile]_vars

----------------------------------------------------------------------------
(* Data.decode called on the two layers of one Map side by side, one call   *)
(* per layer with m.Width and m.Height.  Each call moves through the guard, *)
(* the allocation and the switch on the encoding; the steps of the two      *)
(* calls interleave freely.                                                 *)

Pair == {1, 2}

\* A store that puts the grid of d in every layer: one grid shared by the
\* layers of the Map.
StoreSharedGrid(layers, l, d) ==
    [k \in DOMAIN layers |-> [layers[k] EXCEPT !.gids = d.gids]]

\* decode assigns through its receiver: data.gids = ..., data.gids[col][row]
\* = ... reach the Data of layer l and nothing else (tmx.go declares no
\* package-level variable)
Store(layers, l, d) == [layers EXCEPT ![l] = d]

\* what the decode call on a layer returned
CallOut(set, e) == [set |-> set, err |-> e]

InitPar ==
    /\ input \in { doc \in Documents :
                       doc.xml = "ok" /\ Len(doc.Layers) = 2 }
    /\ tmap = xmlDecode(input).m
    /\ pc = [l \in Pair |-> "guard"]
    /\ returned = [l \in Pair |-> CallOut(FALSE, nil)]
    /\ data = Data("", "", <<>>, <<>>)
    /\ err = nil
    /\ ran = {}
    /\ dims = <<0, 0>>
    /\ ret = NoCall
    /\ gid = Zero32
    /\ flags = NoFlags

\* if data.gids != nil { return nil }
ParGuard(l) ==
    /\ pc[l] = "guard"
    /\ IF ~tmap.Layers[l].gids.nil
       THEN /\ pc' = [pc EXCEPT ![l] = "done"]
            /\ returned' = [returned EXCEPT ![l] = CallOut(TRUE, nil)]
       ELSE /\ pc' = [pc EXCEPT ![l] = "alloc"]
            /\ returned' = returned
    /\ UNCHANGED <<data, err, ran, dims, ret, input, gid, flags, tmap>>

\* // alloc
ParAlloc(l) ==
    /\ pc[l] = "alloc"
    /\ tmap' = [tmap EXCEPT !.Layers =
                   Store(@, l, alloc(@[l], tmap.Width, tmap.Height))]
    /\ pc' = [pc EXCEPT ![l] = "switch"]
    /\ UNCHANGED <<data, err, ran, dims, ret, input, gid, flags, returned>>

\* // decode: the switch on the encoding, and the return of its result
ParSwitch(l) ==
    /\ pc[l] = "switch"
    /\ LET x == switchEncoding(tmap.Layers[l], tmap.Width, tmap.Height)
       IN  /\ tmap' = [tmap EXCEPT !.Layers = Store(@, l, x.data)]
           /\ returned' = [returned EXCEPT ![l] = CallOut(TRUE, x.err)]
    /\ pc' = [pc EXCEPT ![l] = "done"]
    /\ UNCHANGED <<data, err, ran, dims, ret, input, gid, flags>>

NextPar ==
    \/ \E l \in Pair : ParGuard(l)
    \/ \E l \in Pair : ParAlloc(l)
    \/ \E l \in Pair : ParSwitch(l)

SpecPar == InitPar /\ [][NextPar]_vars

----------------------------------------------------------------------------
(* Vocabulary of the properties.  A decode call that found the grid nil     *)
(* and ran the decoding steps leaves ran non-empty and its arguments in     *)
(* dims; a call answered by the "already decoded" guard leaves ran empty.   *)

Cols == dims[1]

Rows == dims[2]

N == Len(input.entries)

Decoding == ran # {}

\* the decode call was given a positive number of columns and of rows
Positive == Cols >= 1 /\ Rows >= 1

\* the payload holds N well-formed entries in one of the three encodings
WellFormed ==
    /\ input.enc \in {"", "csv", "base64"}
    /\ input.comp \in {"", "gzip", "zlib"}
    /\ input.form \in {"ok", "lines"}

\* the k-th payload entry (k from 0) is what GetRawGID returns for its cell
EntryAt(k) ==
    LET out == GetRawGID(data, k % Cols, k \div Cols)
    IN  out.kind = "value" /\ out.v = input.entries[k + 1]

\* bits 0..28 of g, and its three flag bits, by arithmetic on the halves
IndexBits(g) == (g[1] % 8192) * Half + g[2]

Bit31(g) == g[1] \div 32768 = 1

Bit30(g) == (g[1] \div 16384) % 2 = 1

Bit29(g) == (g[1] \div 8192) % 2 = 1

(* C1: for cols >= 1, rows >= 1 and each of the three encodings, a decode   *)
(* of a payload holding exactly cols*rows well-formed entries succeeds;     *)
(* afterwards GetRawGID(k mod cols, k div cols) is the k-th entry for every *)
(* k in 0..cols*rows-1, and every cell inside the grid is defined.          *)
C1_RowMajorIntoColumnMajor ==
    (Decoding /\ WellFormed /\ Positive /\ N = Cols * Rows)
    => /\ err = nil
       /\ \A k \in 0..(N - 1) : EntryAt(k)
       /\ \A col \in 0..(Cols - 1), row \in 0..(Rows - 1) :
              GetRawGID(data, col, row).kind = "value"

\* a 2 x 2 grid decoded from a gzip payload, and its cell (1, 0) read
C1_Witness ==
    /\ WellFormed /\ input.enc = "base64" /\ input.comp = "gzip"
    /\ dims = <<2, 2>> /\ N = 4 /\ err = nil /\ ~data.gids.nil
    /\ ret.op = "GetRawGID" /\ ret.col = 1 /\ ret.row = 0
    /\ ret.out.kind = "value" /\ ret.out.v = input.entries[2]

(* C2: for each of the three encodings, a decode of a payload with          *)
(* cols*rows - 1 or cols*rows + 1 entries fails with the wrong-number error *)
(* whose "got" is the number of entries in the payload and whose "wanted"   *)
(* is cols*rows.                                                            *)
C2_LengthMismatch ==
    (/\ Decoding /\ WellFormed /\ Positive
     /\ (N = Cols * Rows - 1 \/ N = Cols * Rows + 1))
    => /\ err.kind = "wrong number of GIDs"
       /\ err.got = N
       /\ err.want = Cols * Rows

\* Every decode step sets ret' to NoCall; C3 names that first, so that an
\* accessor call is told from a decode step before DecodeStep is evaluated.
(* C3: once a decode of the layer has returned no error, every later decode *)
(* call, whatever cols and rows it is given, returns no error, runs none of *)
(* the decoding steps and leaves the grid as it was.                        *)
C3_Idempotent ==
    [][(~data.gids.nil /\ err = nil /\ ret' = NoCall /\ DecodeStep)
       => (err' = nil /\ ran' = {} /\ data' = data)]_vars

\* a second decode call answered by the guard, over a grid holding entries
C3_Witness ==
    /\ ~data.gids.nil /\ ran = {} /\ err = nil
    /\ WellFormed /\ dims = <<2, 2>> /\ N = 4
    /\ \A k \in 0..3 : EntryAt(k)

(* C4: a decode of a layer whose encoding is none of "", "csv", "base64"    *)
(* fails with the unsupported-encoding error naming the tag, and afterwards  *)
(* the grid field is still nil.                                             *)
C4_NoGridAfterUnsupportedEncoding ==
    (Decoding /\ Positive /\ data.Encoding \notin {"", "csv", "base64"})
    => /\ err.kind = "encoding not yet implemented"
       /\ err.tag = data.Encoding
       /\ data.gids.nil

\* the reader decodeBase64 hands to ioutil.ReadAll, once the compression
\* reader (if any) was opened
BytesRead(d) ==
    LET r == NewBase64Decoder(TrimSpace(d.RawData))
    IN  IF d.Compression \in {"gzip", "zlib"}
        THEN Inflate(d.Compression, r)
        ELSE r

\* unwrapping the base64 text, opening or reading the compressed stream
\* reports an error to decodeBase64
StreamError(d) ==
    /\ d.Compression \in {"", "gzip", "zlib"}
    /\ \/ /\ d.Compression # ""
          /\ NewReaderErr(d.Compression,
                          NewBase64Decoder(TrimSpace(d.RawData))) # nil
       \/ BytesRead(d).err # nil

(* C5: in the base64 path, whenever unwrapping the base64 text or reading   *)
(* the gzip / zlib stream reports an error, decode returns an error.        *)
C5_ReadErrorReturned ==
    (Decoding /\ Positive /\ data.Encoding = "base64" /\ StreamError(data))
    => err # nil

(* C6: in the base64 path, a byte buffer whose length is not a multiple of  *)
(* 4 fails with the wrong-number error, and decode succeeds only if the     *)
(* buffer holds exactly 4*cols*rows bytes.                                  *)
C6_RemainderRejected ==
    (/\ Decoding /\ Positive /\ data.Encoding = "base64"
     /\ data.Compression \in {"", "gzip", "zlib"}
     /\ \/ data.Compression = ""
        \/ NewReaderErr(data.Compression,
                        NewBase64Decoder(TrimSpace(data.RawData))) = nil)
    => LET len == Len(BytesRead(data).buf)
       IN  /\ len % 4 # 0 => err.kind = "wrong number of GIDs"
           /\ err = nil => len = 4 * Cols * Rows

(* C7: GlobalTileID(g) is g with bits 31, 30 and 29 cleared and bits 0..28  *)
(* unchanged; IsHorizontalFlip, IsVerticalFlip and IsDiagonalFlip test bit  *)
(* 31, 30 and 29, each its own bit only; IsFlip(g) holds iff one of the     *)
(* three does.                                                              *)
C7_FlagBits ==
    flags.set
    => /\ flags.id = IndexBits(gid)
       /\ flags.h = Bit31(gid)
       /\ flags.v = Bit30(gid)
       /\ flags.d = Bit29(gid)
       /\ flags.any = (flags.h \/ flags.v \/ flags.d)

\* 0xA0000005: horizontal and diagonal set, vertical clear, index 5
C7_Witness ==
    /\ flags.set /\ gid = <<40960, 5>>
    /\ flags.h /\ ~flags.v /\ flags.d /\ flags.any /\ flags.id = 5

\* the accessor was called on a decoded layer with a coordinate outside the
\* grid
OutOfRangeCall ==
    /\ ret.op \in {"GetRawGID", "GetGID"}
    /\ ~data.gids.nil /\ err = nil /\ WellFormed /\ Positive
    /\ N = Cols * Rows
    /\ \/ ret.col < 0 \/ ret.col >= Cols
       \/ ret.row < 0 \/ ret.row >= Rows

(* C8: on a decoded layer GetRawGID and GetGID answer a coordinate outside  *)
(* the grid with an out-of-bounds error returned to the caller: never with  *)
(* the identifier of another cell, never with a panic.                      *)
C8_OutOfBoundsError ==
    OutOfRangeCall => ret.out.kind = "error"

(* C9: a cols x rows grid (cols, rows >= 1, as the map format has them) of  *)
(* 32-bit identifiers written row-major as csv decimal text, or as          *)
(* little-endian 32-bit words (plain, gzip or zlib) in base64, is read back *)
(* bit for bit: GetRawGID(col, row) is the identifier written for           *)
(* that cell, GetGID its bits 0..28, and the flip predicates its bits 31,   *)
(* 30 and 29.                                                               *)
C9_RoundTrip ==
    (/\ Decoding /\ WellFormed /\ input.enc \in {"csv", "base64"}
     /\ Positive /\ N = Cols * Rows)
    => /\ err = nil
       /\ \A col \in 0..(Cols - 1), row \in 0..(Rows - 1) :
              LET g   == input.entries[row * Cols + col + 1]
                  raw == GetRawGID(data, col, row)
              IN  /\ raw.kind = "value" /\ raw.v = g
                  /\ GetGID(data, col, row).kind = "value"
                  /\ GetGID(data, col, row).v = IndexBits(g)
                  /\ IsHorizontalFlip(raw.v) = Bit31(g)
                  /\ IsVerticalFlip(raw.v) = Bit30(g)
                  /\ IsDiagonalFlip(raw.v) = Bit29(g)

\* a 2 x 2 grid read back from zlib-compressed base64, its cell (1, 0)
\* holding 0x60000009: GetGID gives 9, and cell (1, 1) holds 0xFFFFFFFF
C9_Witness ==
    /\ WellFormed /\ input.enc = "base64" /\ input.comp = "zlib"
    /\ dims = <<2, 2>> /\ N = 4 /\ err = nil /\ ~data.gids.nil
    /\ input.entries[2] = <<24576, 9>>
    /\ GetRawGID(data, 1, 1).v = <<65535, 65535>>
    /\ ret.op = "GetGID" /\ ret.col = 1 /\ ret.row = 0
    /\ ret.out.kind = "value" /\ ret.out.v = 9

\* the tokens the csv text of the payload holds once everything but digits
\* and commas is stripped, from how the payload was written
WrittenTokens ==
    LET toks == Tokens(input.entries)
    IN  CASE input.form \in {"ok", "lines", "minus", "tagged"} ->
               IF N = 0 THEN <<<<>>>> ELSE toks
          [] input.form = "empty first" -> <<<<>>>> \o toks
          [] input.form = "empty last" -> toks \o <<<<>>>>
          [] input.form = "letter" -> <<<<>>>> \o Tail(toks)
          [] input.form = "huge" -> <<HugeToken>> \o Tail(toks)
          [] input.form = "big" -> <<BigToken>> \o Tail(toks)

\* no decimal integer an int can hold: the empty token, or one out of range
Unparseable(t) == t = <<>> \/ t = HugeToken

HasUnparseable == \E i \in 1..Len(WrittenTokens) : Unparseable(WrittenTokens[i])

FirstUnparseable ==
    WrittenTokens[CHOOSE i \in 1..Len(WrittenTokens) :
                      /\ Unparseable(WrittenTokens[i])
                      /\ \A j \in 1..(i - 1) : ~Unparseable(WrittenTokens[j])]

ParseErrors == {"strconv.ErrSyntax", "strconv.ErrRange"}

(* C10 as stated: in the csv encoding, a payload with a token that is not a *)
(* parseable non-negative decimal integer makes decode fail with the        *)
(* integer-parse error for that token, whatever the token count is.         *)
C10_ParseErrorWhateverTheCount ==
    (Decoding /\ Positive /\ input.enc = "csv" /\ HasUnparseable)
    => err.kind \in ParseErrors

(* C10 as amended: in the csv encoding, a payload with a token that is not  *)
(* a parseable non-negative decimal integer makes decode fail: with the     *)
(* wrong-number error (got = the token count) when the token count differs  *)
(* from cols*rows, and otherwise with the integer-parse error for the first *)
(* such token.                                                              *)
C10_CountFirstThenParseError ==
    (Decoding /\ input.enc = "csv" /\ HasUnparseable)
    => IF Len(WrittenTokens) # Cols * Rows
       THEN /\ err.kind = "wrong number of GIDs"
            /\ err.got = Len(WrittenTokens)
            /\ err.want = Cols * Rows
       ELSE /\ err.kind \in ParseErrors
            /\ err.tok = FirstUnparseable

\* one entry and a trailing comma decoded as 2 x 1: two tokens, the second
\* one empty; the first cell was filled before the error
C10_Witness ==
    /\ Decoding /\ input.enc = "csv" /\ input.form = "empty last"
    /\ N = 1 /\ dims = <<2, 1>>
    /\ err.kind = "strconv.ErrSyntax" /\ err.tok = <<>>
    /\ data.gids.tbl[1][1] = input.entries[1]

(* C11: a decode of a layer whose encoding is "csv" or "" and whose          *)
(* compression tag is not empty fails with the "compression not yet         *)
(* implemented" error; it never succeeds with the tag disregarded.          *)
C11_CompressionOutsideBase64Rejected ==
    (/\ Decoding /\ Positive /\ N = Cols * Rows
     /\ data.Encoding \in {"", "csv"} /\ data.Compression # "")
    => /\ err.kind = "compression not yet implemented"
       /\ err.tag = data.Compression

\* gzip.NewReader / zlib.NewReader, called by the decode of base64 data d,
\* returns a stream
StreamOpened(d) ==
    /\ d.Encoding = "base64"
    /\ d.Compression \in {"gzip", "zlib"}
    /\ NewReaderErr(d.Compression,
                    NewBase64Decoder(TrimSpace(d.RawData))) = nil

(* C12: a decode call that opened a gzip / zlib stream has closed it when   *)
(* it returns, whether it returns success, a length mismatch, or after a    *)
(* read error; a stream whose construction failed is neither opened nor     *)
(* closed, and a call that opens no stream closes none.                     *)
C12_StreamClosedOnEveryExit ==
    Decoding =>
        /\ ("z.open" \in ran) <=> StreamOpened(data)
        /\ ("z.Close" \in ran) <=> ("z.open" \in ran)
        /\ "NewReader failed" \in ran => ran \cap {"z.open", "z.Close"} = {}

\* a stream was opened, its reading ended with an error and the call
\* returned a length mismatch, with the stream closed
C12_Witness ==
    /\ Decoding /\ Positive /\ StreamOpened(data)
    /\ BytesRead(data).err # nil
    /\ err.kind = "wrong number of GIDs"
    /\ "z.Close" \in ran

\* a stream was opened and the call returned success, with the stream closed
C12_WitnessSuccess ==
    /\ Decoding /\ Positive /\ StreamOpened(data)
    /\ err = nil /\ BytesRead(data).err = nil
    /\ "z.Close" \in ran

\* the construction of the stream failed: nothing opened, nothing closed
C12_WitnessNotOpened ==
    /\ Decoding /\ Positive /\ "NewReader failed" \in ran
    /\ err # nil /\ "z.Close" \notin ran

\* the grid data holds after a call that found it nil: what Data.decode
\* computes from the payload of data for the dimensions of that call
FreshDecode == allocAndDecode([data EXCEPT !.gids = NilGids], Cols, Rows)

(* C15: whenever the last decode call returned nil, the grid holds the      *)
(* complete decoding of the payload: decoding the payload from scratch      *)
(* succeeds and yields that grid.  In particular a decode repeated after a  *)
(* failed one does not return nil over a zero or partly filled grid.        *)
C15_NilOnlyOverDecodedGrid ==
    (/\ ~data.gids.nil /\ Positive /\ err = nil)
    => /\ FreshDecode.err = nil
       /\ FreshDecode.data.gids = data.gids

\* the csv tokens as the payload spells them: the text between the commas,
\* white space aside
RawTokens ==
    Split(SelectSeq(data.RawData, LAMBDA c : ~IsSpace(c)), ",")

\* t is the decimal numeral of a value a uint32 holds
IsUint32Numeral(t) ==
    /\ Len(t) > 0
    /\ \A i \in 1..Len(t) : IsDigit(t[i])
    /\ LET v == ParseDigits(t, 1, ZeroInt)
       IN  v.err = "nil" /\ v.n[1] = 0 /\ v.n[2] = 0

\* the uint32 the numeral t denotes
Uint32Of(t) ==
    LET v == ParseDigits(t, 1, ZeroInt) IN <<v.n[3], v.n[4]>>

(* C16: a csv decode that returns nil has stored, for every token of the    *)
(* payload, the identifier equal to the token's decimal value: no token of  *)
(* 2^32 or more is stored reduced modulo 2^32, and no token loses a         *)
(* character (a minus sign) before it is read.                              *)
C16_CsvTokenStoredExactlyOrRejected ==
    (Decoding /\ Positive /\ data.Encoding = "csv" /\ err = nil)
    => /\ Len(RawTokens) = Cols * Rows
       /\ \A k \in 0..(Len(RawTokens) - 1) :
              /\ IsUint32Numeral(RawTokens[k + 1])
              /\ GetRawGID(data, k % Cols, k \div Cols) =
                     Value(Uint32Of(RawTokens[k + 1]))

\* what decoding the k-th layer of the document on its own gives
Alone(k) == decode(input.Layers[k], input.Width, input.Height)

\* the layers of the document whose decode fails
Failing == { k \in 1..Len(input.Layers) : Alone(k).err # nil }

\* the first of them
FirstFailing == CHOOSE k \in Failing : \A j \in Failing : k <= j

(* C14: NewFile decodes the layers in document order and stops at the       *)
(* first failure.  While it loops, the layers before the loop index are     *)
(* decoded and the others untouched.  Once it has returned from a parsed    *)
(* document: if every layer's decode succeeds it returned the Map, every    *)
(* layer decoded, and a nil error; otherwise it returned the nil Map and    *)
(* the error of the first failing layer, with no later layer decoded.       *)
C14_DocumentOrderAbortOnFirstFailure ==
    /\ pc.at = "range" =>
           /\ Failing \cap 1..(pc.i - 1) = {}
           /\ \A k \in 1..Len(tmap.Layers) :
                  tmap.Layers[k] =
                      IF k < pc.i THEN Alone(k).data ELSE input.Layers[k]
    /\ (pc.at = "returned" /\ input.xml = "ok") =>
           /\ returned.set
           /\ (returned.err = nil) <=> (Failing = {})
           /\ (~returned.m.nil) <=> (Failing = {})
           /\ Failing = {} =>
                  /\ returned.m = tmap
                  /\ \A k \in 1..Len(input.Layers) :
                         /\ returned.m.Layers[k] = Alone(k).data
                         /\ ~returned.m.Layers[k].gids.nil
           /\ Failing # {} =>
                  /\ returned.err = Alone(FirstFailing).err
                  /\ \A k \in 1..Len(input.Layers) :
                         tmap.Layers[k] =
                             IF k <= FirstFailing THEN Alone(k).data
                             ELSE input.Layers[k]
                  /\ \A k \in (FirstFailing + 1)..Len(input.Layers) :
                         tmap.Layers[k].gids.nil

\* NewFile returned the error of the second of three layers: the first is
\* decoded, the third was never touched
C14_Witness ==
    /\ pc.at = "returned" /\ input.xml = "ok"
    /\ Len(input.Layers) = 3
    /\ FirstFailing = 2 /\ 3 \notin Failing
    /\ returned.m.nil /\ returned.err = Alone(2).err
    /\ ~tmap.Layers[1].gids.nil
    /\ tmap.Layers[3].gids.nil

\* NewFile returned the Map of three decoded layers
C14_WitnessSuccess ==
    /\ pc.at = "returned" /\ Len(input.Layers) = 3
    /\ returned.err = nil /\ ~returned.m.nil
    /\ \A k \in 1..3 : ~returned.m.Layers[k].gids.nil

\* the fields of a layer's Data that hold its payload
PayloadOf(d) == <<d.Encoding, d.Compression, d.RawData, d.Tiles>>

(* C13: under every interleaving of the decode calls on two layers, a step  *)
(* of the call on one layer leaves the other layer's Data, position and     *)
(* result as they were and changes no layer's encoding, compression or raw  *)
(* payload; and when the call returns, the layer's grid and the error       *)
(* returned are those of decoding that layer alone.                         *)
C13_LayersDecodeIndependently ==
    [][\A l \in Pair :
           pc'[l] # pc[l] =>
               /\ \A k \in Pair \ {l} :
                      /\ tmap'.Layers[k] = tmap.Layers[k]
                      /\ returned'[k] = returned[k]
                      /\ pc'[k] = pc[k]
               /\ \A k \in Pair :
                      PayloadOf(tmap'.Layers[k]) = PayloadOf(input.Layers[k])
               /\ pc'[l] = "done" =>
                      /\ tmap'.Layers[l] = Alone(l).data
                      /\ returned'[l] = CallOut(TRUE, Alone(l).err)]_vars

\* the call on layer 2 has returned its filled grid while the call on
\* layer 1 stands between its allocation and its switch, its grid still zero
C13_Witness ==
    /\ DOMAIN pc = Pair
    /\ pc[1] = "switch" /\ pc[2] = "done"
    /\ tmap.Width >= 1 /\ tmap.Height >= 1
    /\ returned[2] = CallOut(TRUE, nil)
    /\ tmap.Layers[2].gids = Alone(2).data.gids
    /\ tmap.Layers[1].gids = MakeGids(tmap.Width, tmap.Height)
    /\ Alone(1).err = nil
    /\ Alone(1).data.gids # tmap.Layers[1].gids

============================================================================
